---- MODULE Spec2Model ----
(***************************************************************************)
(* Model of lazyflow/utility/io_util/write_ome_zarr.py: the streaming      *)
(* multiscale (OME-Zarr) writer.                                           *)
(*                                                                         *)
(* Conventions                                                             *)
(*  - An OrderedDict keyed by axis is a function over the axis keys; its   *)
(*    .keys()/.values() order is the sequence AxisOrder.                   *)
(*  - A shape, a chunk shape, a ROI start/stop are sequences (positional). *)
(*  - Scale factors are the floats 1.0 and 2.0 ** k; they, and every       *)
(*    quotient extent / 2.0 ** k that occurs, are exactly representable,   *)
(*    so they are modelled as integers and math.ceil(a / b) as CeilDiv.    *)
(*  - Optional[int] is a sequence of length 0 (None) or 1.                 *)
(***************************************************************************)
EXTENDS Integers, Sequences, FiniteSets, TLC

VARIABLES
    pc,           \* where the call is: of write_ome_zarr, or of a function called alone
    shape,        \* tagged shape of the (reordered) image source
    chunk_shape,  \* the planned chunk shape
    min_length,   \* Optional[int] argument
    scalings,     \* the planned levels: list of OrderedScaling
    zarrays,      \* the storage arrays created so far, one per level
    meta,         \* list of ImageMetadata
    blocks,       \* the ROIs the block source partitions the level-0 domain into
    delivered,    \* the ROIs delivered and written so far
    progress,     \* what progress_signal has been called with, in order
    document,     \* Optional: the metadata document stored
    error,        \* Optional: the exception that left write_ome_zarr
    cleaned,      \* op_reorder.cleanUp() has run
    scaled        \* results of _apply_scaling_method called alone, one per block

vars == <<pc, shape, chunk_shape, min_length, scalings, zarrays, meta,
          blocks, delivered, progress, document, error, cleaned, scaled>>

-----------------------------------------------------------------------------
(* Bounds of the model *)

\* largest product of the t, c and z extents, largest y extent of an image
MaxTCZ == 2
MaxY == 4
\* pipeline: largest cell count of an image
MaxCells == 13
\* pipeline: largest chunk extent the chunk planner may return per axis
MaxChunk == 2
\* pipeline: largest number of blocks the source partitions the domain into
MaxBlocks == 2
\* the largest coordinate at which the block source of an export cuts an axis
MaxCut == 4
\* planner: largest y and x extent, and the exponent of the one huge x extent
MaxPlanExt == 8
HugeExp == 22
\* planner: largest chunk extent, largest min_length
MaxPlanChunk == 4
MaxMinLength == 3
\* downsampler: largest cell count of a domain, largest scale factor
MaxRoiCells == 20
MaxScale == 5
\* single block: largest x stop and largest y stop of the block
MaxStop == 27
MaxCropY == 2

-----------------------------------------------------------------------------
(* Axes *)

\* Optional[...]: None
None == <<>>

\* op_reorder.AxisOrder.setValue("tczyx"): the keys of every tagged shape
AxisOrder == <<"t", "c", "z", "y", "x">>

AxisKeys == {AxisOrder[k] : k \in 1..Len(AxisOrder)}

SPATIAL_AXES == {"z", "y", "x"}

\* OrderedDict.values(): the values in key order
Values(od) == [k \in 1..Len(AxisOrder) |-> od[AxisOrder[k]]]

\* ODict(zip(keys, seq))
Tagged(seq) == [a \in AxisKeys |-> seq[CHOOSE k \in 1..Len(AxisOrder) : AxisOrder[k] = a]]

\* the leading extents t, c, z of an image
LeadingExtents ==
    {tcz \in (1..MaxTCZ) \X (1..MaxTCZ) \X (1..MaxTCZ) : tcz[1] * tcz[2] * tcz[3] <= MaxTCZ}

-----------------------------------------------------------------------------
(* Arithmetic *)

RECURSIVE Pow2(_)
Pow2(n) == IF n = 0 THEN 1 ELSE 2 * Pow2(n - 1)

\* math.ceil(a / b) for integers a >= 0, b > 0
CeilDiv(a, b) == (a + b - 1) \div b

\* _round_like_scaling_method(a / b); the variant rounds down
_round_like_scaling_method_floor(a, b) == a \div b
_round_like_scaling_method(a, b) == CeilDiv(a, b)

RECURSIVE ProdSeq(_)
ProdSeq(s) == IF Len(s) = 0 THEN 1 ELSE Head(s) * ProdSeq(Tail(s))

RECURSIVE MaxSeq(_)
MaxSeq(s) == IF Len(s) = 1 THEN s[1]
             ELSE LET m == MaxSeq(Tail(s)) IN IF s[1] > m THEN s[1] ELSE m

-----------------------------------------------------------------------------
(* Level planning: _get_scalings and its helpers *)

_scale_tagged_shape(original_tagged_shape, scaling) ==
    [a \in AxisKeys |-> _round_like_scaling_method(original_tagged_shape[a], scaling[a])]

\* [s for a, s in new_shape.items() if a in SPATIAL_AXES]
SpatialExtents(tagged) ==
    LET RECURSIVE Pick(_)
        Pick(k) == IF k > Len(AxisOrder) THEN <<>>
                   ELSE IF AxisOrder[k] \in SPATIAL_AXES
                        THEN <<tagged[AxisOrder[k]]>> \o Pick(k + 1)
                        ELSE Pick(k + 1)
    IN Pick(1)

\* the variant takes the chunk's spatial extents only
_is_less_than_4_chunks_spatial(new_shape, chunk) ==
    ProdSeq(SpatialExtents(new_shape)) < 4 * ProdSeq(SpatialExtents(Tagged(chunk)))
_is_less_than_4_chunks(new_shape, chunk) ==
    ProdSeq(SpatialExtents(new_shape)) < 4 * ProdSeq(chunk)

\* the variant lets an axis shrink to 1 and stops only at 0
_reduces_any_axis_to_singleton_strict(new_shape, original_shape) ==
    \E k \in 1..Len(new_shape) : new_shape[k] < 1 /\ 1 < original_shape[k]
_reduces_any_axis_to_singleton(new_shape, original_shape) ==
    \E k \in 1..Len(new_shape) : new_shape[k] <= 1 /\ 1 < original_shape[k]

\* min_length and max(new_shape.values()) < min_length
BelowMinLength(new_shape, minlen) ==
    /\ Len(minlen) = 1
    /\ minlen[1] # 0
    /\ MaxSeq(Values(new_shape)) < minlen[1]

sanity_limit == 20

\* the scaling computed in iteration i of the loop (level i + 1); the variants
\* scale singleton spatial axes too, and grow as 2.0 * (i + 1)
new_scaling_all_spatial(original_tagged_shape, i) ==
    [a \in AxisKeys |-> IF a \in SPATIAL_AXES THEN Pow2(i + 1) ELSE 1]
new_scaling_linear(original_tagged_shape, i) ==
    [a \in AxisKeys |->
        IF a \in SPATIAL_AXES /\ original_tagged_shape[a] > 1 THEN 2 * (i + 1) ELSE 1]
new_scaling(original_tagged_shape, i) ==
    [a \in AxisKeys |->
        IF a \in SPATIAL_AXES /\ original_tagged_shape[a] > 1 THEN Pow2(i + 1) ELSE 1]

\* the break condition of iteration i
StopsAt(original_tagged_shape, chunk, minlen, i) ==
    LET new_shape == _scale_tagged_shape(original_tagged_shape,
                                         new_scaling(original_tagged_shape, i))
    IN \/ _is_less_than_4_chunks(new_shape, chunk)
       \/ _reduces_any_axis_to_singleton(Values(new_shape), Values(original_tagged_shape))
       \/ BelowMinLength(new_shape, minlen)

\* the for loop over range(sanity_limit), from iteration i with list acc;
\* the result is [raised |-> a ValueError was raised, value |-> the list returned]
RECURSIVE ScalingsLoop(_, _, _, _, _)
ScalingsLoop(original_tagged_shape, chunk, minlen, i, acc) ==
    IF i >= sanity_limit THEN [raised |-> FALSE, value |-> acc]
    ELSE IF i = sanity_limit THEN [raised |-> TRUE, value |-> <<>>]
    ELSE IF StopsAt(original_tagged_shape, chunk, minlen, i)
         THEN [raised |-> FALSE, value |-> acc]
         ELSE ScalingsLoop(original_tagged_shape, chunk, minlen, i + 1,
                           Append(acc, new_scaling(original_tagged_shape, i)))

_get_scalings(original_tagged_shape, chunk, minlen) ==
    LET original_scale == [a \in AxisKeys |-> 1]
    IN ScalingsLoop(original_tagged_shape, chunk, minlen, 0, <<original_scale>>)

-----------------------------------------------------------------------------
(* Arrays, ROIs and the block downsampler *)

NAxes == Len(AxisOrder)

\* all index tuples of an array of the given shape (axis order t, c, z, y, x)
Idx(shp) == {<<t, c, z, y, x>> : t \in 0..(shp[1] - 1), c \in 0..(shp[2] - 1),
                                 z \in 0..(shp[3] - 1), y \in 0..(shp[4] - 1),
                                 x \in 0..(shp[5] - 1)}

\* all coordinates of the half-open ROI (start, stop)
RoiCoords(roi) == {<<t, c, z, y, x>> : t \in roi[1][1]..(roi[2][1] - 1),
                                       c \in roi[1][2]..(roi[2][2] - 1),
                                       z \in roi[1][3]..(roi[2][3] - 1),
                                       y \in roi[1][4]..(roi[2][4] - 1),
                                       x \in roi[1][5]..(roi[2][5] - 1)}

\* roiFromShape(shape)
roiFromShape(shp) == <<[k \in 1..NAxes |-> 0], shp>>

\* The pixel of the image source at a level-0 coordinate.  Decimation only
\* selects and moves pixels, so the most distinguishing image is the one whose
\* every pixel is different: the pixel at p is p itself.
SourcePixel(p) == p

\* the ndarray the source delivers for a ROI: data[l] is the pixel at start + l
SourceData(roi) ==
    LET shp == [k \in 1..NAxes |-> roi[2][k] - roi[1][k]]
    IN [shape |-> shp,
        at |-> [l \in Idx(shp) |-> SourcePixel([k \in 1..NAxes |-> roi[1][k] + l[k]])]]

\* len(range(n)[crop::step]): the extent numpy gives data[slice(crop, None, step)]
SliceLen(n, crop, step) == IF crop >= n THEN 0 ELSE (n - crop + step - 1) \div step

\* block_start_crops; the variant crops by the remainder, not its complement
block_start_crop_remainder(start, scale) == start % scale
\* the variant without the test for a start on the grid
block_start_crop_unguarded(start, scale) == scale - (start % scale)
block_start_crop(start, scale) ==
    IF start % scale > 0 THEN scale - (start % scale) ELSE 0

\* the variant takes every scale-th element from the block's own first element
\* and places it from floor(start / scale) on
_apply_scaling_method_block_grid(data, current_block_roi, scaling) ==
    LET scaling_int == Values(scaling)
        starts == current_block_roi[1]
        outshape == [k \in 1..NAxes |-> SliceLen(data.shape[k], 0, scaling_int[k])]
        scaled_starts == [k \in 1..NAxes |-> starts[k] \div scaling_int[k]]
        scaled_stops == [k \in 1..NAxes |-> scaled_starts[k] + outshape[k]]
    IN [data |-> [shape |-> outshape,
                  at |-> [j \in Idx(outshape) |->
                             data.at[[k \in 1..NAxes |-> j[k] * scaling_int[k]]]]],
        roi |-> <<scaled_starts, scaled_stops>>]

\* returns [data |-> data[crop_and_downsample_slicing], roi |-> scaled_roi]
_apply_scaling_method(data, current_block_roi, scaling) ==
    LET scaling_int == Values(scaling)
        starts == current_block_roi[1]
        block_start_crops == [k \in 1..NAxes |-> block_start_crop(starts[k], scaling_int[k])]
        outshape == [k \in 1..NAxes |->
                        SliceLen(data.shape[k], block_start_crops[k], scaling_int[k])]
        scaled_starts == [k \in 1..NAxes |->
                             _round_like_scaling_method(starts[k], scaling_int[k])]
        scaled_stops == [k \in 1..NAxes |->
                            _round_like_scaling_method(current_block_roi[2][k], scaling_int[k])]
    IN [data |-> [shape |-> outshape,
                  at |-> [j \in Idx(outshape) |->
                             data.at[[k \in 1..NAxes |->
                                        block_start_crops[k] + j[k] * scaling_int[k]]]]],
        roi |-> <<scaled_starts, scaled_stops>>]

\* zarr.creation.empty(shape, ...): no cell holds a defined value yet; cells
\* maps the coordinates written so far to their values, and writes counts the
\* assignments the array has received (history, not part of the store)
EmptyArray(shp, path, chunks) ==
    [shape |-> shp, path |-> path, chunks |-> chunks, cells |-> <<>>, writes |-> 0]

Min(a, b) == IF a < b THEN a ELSE b

\* roiToSlice(*roi) applied to an array: slices are clipped to the array
ClippedRoi(arr, roi) ==
    <<[k \in 1..NAxes |-> Min(roi[1][k], arr.shape[k])],
      [k \in 1..NAxes |-> Min(roi[2][k], arr.shape[k])]>>

\* zarray[slicing] = data: [ok |-> the shapes agree, arr |-> the array after]
SetItem(arr, roi, data) ==
    LET sel == ClippedRoi(arr, roi)
        selshape == [k \in 1..NAxes |->
                        IF sel[2][k] > sel[1][k] THEN sel[2][k] - sel[1][k] ELSE 0]
        region == RoiCoords(sel)
    IN IF selshape # data.shape
       THEN [ok |-> FALSE, arr |-> arr]
       ELSE [ok |-> TRUE,
             arr |-> [arr EXCEPT !.cells =
                        [p \in (DOMAIN arr.cells) \cup region |->
                            IF p \in region
                            THEN data.at[[k \in 1..NAxes |-> p[k] - sel[1][k]]]
                            ELSE arr.cells[p]],
                                 !.writes = @ + 1]]

\* scale_and_write_block(scalings_, zarrays_, roi, data) from level i_ on
\* (levels are numbered from 0; sequences are indexed from 1).  The store
\* refuses the write to level fail_at (fail_at = -1: no write is refused).
\* [ok |-> no exception, zarrays |-> the arrays after]
RECURSIVE WriteLevels(_, _, _, _, _, _)
WriteLevels(scalings_, zarrays_, roi, data, i_, fail_at) ==
    IF i_ >= Len(scalings_) THEN [ok |-> TRUE, zarrays |-> zarrays_]
    ELSE LET sc == IF i_ > 0
                       THEN _apply_scaling_method(data, roi, scalings_[i_ + 1])
                       ELSE [data |-> data, roi |-> roi]
             w == SetItem(zarrays_[i_ + 1], sc.roi, sc.data)
         IN IF i_ = fail_at \/ ~w.ok
            THEN [ok |-> FALSE, zarrays |-> zarrays_]
            ELSE WriteLevels(scalings_, [zarrays_ EXCEPT ![i_ + 1] = w.arr],
                             roi, data, i_ + 1, fail_at)

\* the variant leaves level 0 out
scale_and_write_block_from_level_1(scalings_, zarrays_, roi, data, fail_at) ==
    WriteLevels(scalings_, zarrays_, roi, data, 1, fail_at)
scale_and_write_block(scalings_, zarrays_, roi, data, fail_at) ==
    WriteLevels(scalings_, zarrays_, roi, data, 0, fail_at)

-----------------------------------------------------------------------------
(* The collaborators of the export: chunk planner result, block source *)

\* determineBlockShape(max_shape, target): the balanced block-shape heuristic.
\* Any block shape with extents from 1 to the maximum it is given can come
\* back (the budget only narrows the choice); extents are explored up to
\* MaxChunk.
determineBlockShape(max_shape) ==
    {<<t, c, z, y, x>> : t \in 1..Min(max_shape[1], MaxChunk),
                         c \in 1..Min(max_shape[2], MaxChunk),
                         z \in 1..Min(max_shape[3], MaxChunk),
                         y \in 1..Min(max_shape[4], MaxChunk),
                         x \in 1..Min(max_shape[5], MaxChunk)}

\* _get_chunk_shape: the shapes it can return for the slot's tagged shape; the
\* variant hands the heuristic the slot's shape as it is
_get_chunk_shape_unforced(tagged) == determineBlockShape(Values(tagged))
_get_chunk_shape(tagged) ==
    LET tagged_maxshape == [tagged EXCEPT !["t"] = 1, !["c"] = 1]
    IN determineBlockShape(Values(tagged_maxshape))

\* extents never exceeding the axis's own extent, never below 1; t and c: 1
ChunkShapes(tagged) == _get_chunk_shape(tagged)

\* the two halves of a ROI cut on axis k at coordinate at
LeftOf(roi, k, at) == <<roi[1], [roi[2] EXCEPT ![k] = at]>>
RightOf(roi, k, at) == <<[roi[1] EXCEPT ![k] = at], roi[2]>>

\* every partition of a ROI into at most n non-overlapping boxes, cut at any
\* coordinates (for n <= 4 every partition into boxes is a sequence of cuts)
PartitionsOf[roi \in Seq(Seq(Nat)), n \in Nat] ==
    {{roi}} \cup
    (IF n < 2 THEN {}
     ELSE UNION { UNION { UNION {
            {P \cup Q : P \in PartitionsOf[LeftOf(roi, k, at), n1],
                        Q \in PartitionsOf[RightOf(roi, k, at), n - n1]}
            : n1 \in 1..(n - 1) }
            : at \in (roi[1][k] + 1)..(roi[2][k] - 1) }
            : k \in 1..NAxes })

Partitions(roi, n) == PartitionsOf[roi, n]

Volume(roi) == ProdSeq([k \in 1..NAxes |-> roi[2][k] - roi[1][k]])

RECURSIVE SumVolumes(_)
SumVolumes(rois) ==
    IF rois = {} THEN 0
    ELSE LET r == CHOOSE r \in rois : TRUE IN Volume(r) + SumVolumes(rois \ {r})

\* the percentage the requester reports on its progressSignal
RequesterProgress(done, all) == (100 * SumVolumes(done)) \div SumVolumes(all)

-----------------------------------------------------------------------------
(* Metadata *)

\* ImageMetadata(scale_path, scaling, {}); scale_path is f"s{i}", written here
\* relative to the export path's internal path, which the code puts in front
\* of it when there is one
ImageMetadata(i, scaling) == [path |-> <<"s", i>>, scale |-> scaling, translation |-> <<>>]

axis_types == [a \in AxisKeys |->
                 IF a = "t" THEN "time" ELSE IF a = "c" THEN "channel" ELSE "space"]

\* [image.scale[tag.key] for tag in axistags]; the variant lists the spatial
\* factors first
ScaleVectorSpatialFirst(image, axistags) ==
    LET order == <<"z", "y", "x", "t", "c">>
    IN [k \in 1..Len(axistags) |-> image.scale[order[k]]]
ScaleVector(image, axistags) ==
    [k \in 1..Len(axistags) |-> image.scale[axistags[k]]]

\* the document _write_ome_zarr_and_ilastik_metadata stores
_write_ome_zarr_and_ilastik_metadata(multiscale_metadata, axistags) ==
    [version |-> "0.4",
     axes |-> [k \in 1..Len(axistags) |->
                 [name |-> axistags[k], type |-> axis_types[axistags[k]]]],
     datasets |-> [i \in 1..Len(multiscale_metadata) |->
                     [path |-> multiscale_metadata[i].path,
                      scale |-> ScaleVector(multiscale_metadata[i], axistags)]],
     array_axistags |-> [i \in 1..Len(multiscale_metadata) |->
                           [path |-> multiscale_metadata[i].path, axistags |-> axistags]]]

-----------------------------------------------------------------------------
(* write_ome_zarr *)

Shapes ==
    {s \in {Tagged(<<tcz[1], tcz[2], tcz[3], y, x>>) :
                tcz \in LeadingExtents, y \in 1..MaxY, x \in 1..MaxCells} :
        ProdSeq(Values(s)) <= MaxCells}

Init ==
    /\ pc = "start"
    /\ shape \in Shapes
    /\ min_length = None
    /\ chunk_shape = <<>>
    /\ scalings = <<>>
    /\ zarrays = <<>>
    /\ meta = <<>>
    /\ blocks = {}
    /\ delivered = {}
    /\ progress = <<>>
    /\ document = None
    /\ error = None
    /\ cleaned = FALSE
    /\ scaled = {}

Report(origin, value) == [origin |-> origin, value |-> value]

\* an exception leaves write_ome_zarr through the finally clause; the variant
\* logs it and carries on with the metadata
RaiseSwallowed(e) ==
    /\ pc' = "metadata"
    /\ error' = <<e>>
    /\ cleaned' = cleaned
Raise(e) ==
    /\ pc' = "raised"
    /\ error' = <<e>>
    /\ cleaned' = TRUE

\* connect the reordering operator, progress_signal(25), then
\* _compute_and_write_scales up to the array creation loop
Setup ==
    /\ pc = "start"
    /\ \E c \in ChunkShapes(shape) :
          LET r == _get_scalings(shape, c, min_length)
          IN /\ chunk_shape' = c
             /\ IF r.raised
                THEN Raise("ValueError") /\ UNCHANGED scalings
                ELSE pc' = "create" /\ scalings' = r.value /\ UNCHANGED <<error, cleaned>>
    /\ progress' = Append(progress, Report("write_ome_zarr", 25))
    /\ UNCHANGED <<shape, min_length, zarrays, meta, blocks, delivered, document>>
    /\ UNCHANGED scaled

\* one iteration of the array creation loop
CreateArray ==
    /\ pc = "create"
    /\ Len(zarrays) < Len(scalings)
    /\ LET i == Len(zarrays)
           scaling == scalings[i + 1]
           scaled_shape == Values(_scale_tagged_shape(shape, scaling))
       IN /\ zarrays' = Append(zarrays, EmptyArray(scaled_shape, <<"s", i>>, chunk_shape))
          /\ meta' = Append(meta, ImageMetadata(i, scaling))
    /\ UNCHANGED <<pc, shape, chunk_shape, min_length, scalings, blocks, delivered,
                   progress, document, error, cleaned>>
    /\ UNCHANGED scaled

\* zarr.creation.empty raises
CreateArrayFails ==
    /\ pc = "create"
    /\ Len(zarrays) < Len(scalings)
    /\ Raise("array creation failed")
    /\ UNCHANGED <<shape, chunk_shape, min_length, scalings, zarrays, meta, blocks,
                   delivered, progress, document>>
    /\ UNCHANGED scaled

\* the requester is built over roiFromShape(shape), subscribed and executed
StartStream ==
    /\ pc = "create"
    /\ Len(zarrays) = Len(scalings)
    /\ blocks' \in {P \in Partitions(roiFromShape(Values(shape)), MaxBlocks) :
                      \A b \in P : \A k \in 1..NAxes : b[1][k] <= MaxCut}
    /\ pc' = "stream"
    /\ UNCHANGED <<shape, chunk_shape, min_length, scalings, zarrays, meta, delivered,
                   progress, document, error, cleaned>>
    /\ UNCHANGED scaled

\* the requester delivers one block: resultSignal, then progressSignal
DeliverBlock(roi) ==
    /\ pc = "stream"
    /\ roi \in blocks \ delivered
    /\ LET r == scale_and_write_block(scalings, zarrays, roi, SourceData(roi), -1)
       IN /\ zarrays' = r.zarrays
          /\ IF r.ok
             THEN /\ delivered' = delivered \cup {roi}
                  /\ progress' = Append(progress,
                        Report("requester", RequesterProgress(delivered \cup {roi}, blocks)))
                  /\ UNCHANGED <<pc, error, cleaned>>
             ELSE Raise("shape mismatch") /\ UNCHANGED <<delivered, progress>>
    /\ UNCHANGED <<shape, chunk_shape, min_length, scalings, meta, blocks, document>>
    /\ UNCHANGED scaled

\* the store refuses the write of a delivered block to level i
BlockWriteFails(roi, i) ==
    /\ pc = "stream"
    /\ roi \in blocks \ delivered
    /\ i \in 0..(Len(scalings) - 1)
    /\ zarrays' = scale_and_write_block(scalings, zarrays, roi, SourceData(roi), i).zarrays
    /\ Raise("block write failed")
    /\ UNCHANGED <<shape, chunk_shape, min_length, scalings, meta, blocks, delivered,
                   progress, document>>
    /\ UNCHANGED scaled

\* the block source raises before it has delivered every block
SourceFails ==
    /\ pc = "stream"
    /\ delivered # blocks
    /\ Raise("source failed")
    /\ UNCHANGED <<shape, chunk_shape, min_length, scalings, zarrays, meta, blocks,
                   delivered, progress, document>>
    /\ UNCHANGED scaled

\* requester.execute() returns; progress_signal(95)
FinishStream ==
    /\ pc = "stream"
    /\ delivered = blocks
    /\ progress' = Append(progress, Report("write_ome_zarr", 95))
    /\ pc' = "metadata"
    /\ UNCHANGED <<shape, chunk_shape, min_length, scalings, zarrays, meta, blocks,
                   delivered, document, error, cleaned>>
    /\ UNCHANGED scaled

\* _write_ome_zarr_and_ilastik_metadata, then the finally clause, then return
WriteMetadata ==
    /\ pc = "metadata"
    /\ document' = <<_write_ome_zarr_and_ilastik_metadata(meta, AxisOrder)>>
    /\ pc' = "returned"
    /\ cleaned' = TRUE
    /\ UNCHANGED <<shape, chunk_shape, min_length, scalings, zarrays, meta, blocks,
                   delivered, progress, error>>
    /\ UNCHANGED scaled

\* the store refuses the metadata
WriteMetadataFails ==
    /\ pc = "metadata"
    /\ Raise("metadata write failed")
    /\ UNCHANGED <<shape, chunk_shape, min_length, scalings, zarrays, meta, blocks,
                   delivered, progress, document>>
    /\ UNCHANGED scaled

Next ==
    \/ Setup
    \/ CreateArray
    \/ CreateArrayFails
    \/ StartStream
    \/ \E roi \in blocks : DeliverBlock(roi)
    \/ \E roi \in blocks : \E i \in 0..(Len(scalings) - 1) : BlockWriteFails(roi, i)
    \/ SourceFails
    \/ FinishStream
    \/ WriteMetadata
    \/ WriteMetadataFails

Spec == Init /\ [][Next]_vars

-----------------------------------------------------------------------------
(* The planner on its own: inputs drawn from bounded sets, then one call *)

PlanShapes ==
    {Tagged(<<tcz[1], tcz[2], tcz[3], y, x>>) :
        tcz \in LeadingExtents, y \in 1..MaxPlanExt,
        x \in (1..MaxPlanExt) \cup {Pow2(HugeExp)}}

\* any chunk shape of the same length, no extent above the axis's own
PlanChunks(s) == {c \in [1..Len(AxisOrder) -> 1..MaxPlanChunk] :
                    \A k \in 1..Len(AxisOrder) : c[k] <= s[AxisOrder[k]]}

MinLengths == {None} \cup {<<n>> : n \in 0..MaxMinLength}

InitPlan ==
    /\ pc = "call_get_scalings"
    /\ shape \in PlanShapes
    /\ chunk_shape \in PlanChunks(shape)
    /\ min_length \in MinLengths
    /\ scalings = <<>>
    /\ zarrays = <<>>
    /\ meta = <<>>
    /\ blocks = {}
    /\ delivered = {}
    /\ progress = <<>>
    /\ document = None
    /\ error = None
    /\ cleaned = FALSE
    /\ scaled = {}

\* one call of _get_scalings(shape, chunk_shape, min_length)
PlanCall ==
    /\ pc = "call_get_scalings"
    /\ LET r == _get_scalings(shape, chunk_shape, min_length)
       IN /\ pc' = IF r.raised THEN "get_scalings_raised" ELSE "get_scalings_returned"
          /\ scalings' = r.value
    /\ UNCHANGED <<shape, chunk_shape, min_length, zarrays, meta, blocks,
                   delivered, progress, document, error, cleaned>>
    /\ UNCHANGED scaled

NextPlan == PlanCall

SpecPlan == InitPlan /\ [][NextPlan]_vars

-----------------------------------------------------------------------------
(* The downsampler on its own: a domain, a partition of it and one scaling  *)
(* drawn from bounded sets, then _apply_scaling_method on every block       *)

RoiShapes ==
    {s \in {Tagged(<<tcz[1], tcz[2], tcz[3], y, x>>) :
                tcz \in LeadingExtents, y \in 1..MaxY, x \in 1..MaxRoiCells} :
        ProdSeq(Values(s)) <= MaxRoiCells}

\* integer scale factors: any factor on a non-singleton spatial axis, else 1
ScaleFactors(extent) == IF extent = 1 THEN {1} ELSE 1..MaxScale

IntegerScalings(tagged) ==
    {Tagged(<<1, 1, z, y, x>>) : z \in ScaleFactors(tagged["z"]),
                                 y \in ScaleFactors(tagged["y"]),
                                 x \in ScaleFactors(tagged["x"])}

InitRoi ==
    /\ pc = "call_apply_scaling_method"
    /\ shape \in RoiShapes
    /\ blocks \in Partitions(roiFromShape(Values(shape)), MaxBlocks)
    /\ scalings \in {<<sc>> : sc \in IntegerScalings(shape)}
    /\ chunk_shape = <<>>
    /\ min_length = None
    /\ zarrays = <<>>
    /\ meta = <<>>
    /\ delivered = {}
    /\ progress = <<>>
    /\ document = None
    /\ error = None
    /\ cleaned = FALSE
    /\ scaled = {}

\* _apply_scaling_method(data, roi, scaling) for every block of the partition
ScaleBlocks ==
    /\ pc = "call_apply_scaling_method"
    /\ scaled' = {LET r == _apply_scaling_method(SourceData(roi), roi, scalings[1])
                  IN [roi |-> roi, scaled_roi |-> r.roi, scaled_data |-> r.data]
                  : roi \in blocks}
    /\ pc' = "apply_scaling_method_returned"
    /\ UNCHANGED <<shape, chunk_shape, min_length, scalings, zarrays, meta, blocks,
                   delivered, progress, document, error, cleaned>>

NextRoi == ScaleBlocks

SpecRoi == InitRoi /\ [][NextRoi]_vars

-----------------------------------------------------------------------------
(* The downsampler on one block: any ROI with 0 <= start <= stop on y and  *)
(* x, blocks without a grid sample and empty blocks included, any integer  *)
(* scale on y and x                                                         *)

CropDomain == Tagged(<<1, 1, 1, MaxCropY, MaxStop>>)

CropRois ==
    {<<<<0, 0, 0, ys, xs>>, <<1, 1, 1, ye, xe>>>> :
        ys \in 0..MaxCropY, ye \in 0..MaxCropY, xs \in 0..MaxStop, xe \in 0..MaxStop}

InitCrop ==
    /\ pc = "call_apply_scaling_method"
    /\ shape = CropDomain
    /\ blocks \in {{roi} : roi \in {r \in CropRois : r[1][4] <= r[2][4] /\ r[1][5] <= r[2][5]}}
    /\ scalings \in {<<Tagged(<<1, 1, 1, sy, sx>>)>> : sy \in 1..MaxScale, sx \in 1..MaxScale}
    /\ chunk_shape = <<>>
    /\ min_length = None
    /\ zarrays = <<>>
    /\ meta = <<>>
    /\ delivered = {}
    /\ progress = <<>>
    /\ document = None
    /\ error = None
    /\ cleaned = FALSE
    /\ scaled = {}

SpecCrop == InitCrop /\ [][NextRoi]_vars

-----------------------------------------------------------------------------
(* Claims about the planner, checked under SpecPlan *)

PlanReturned == pc = "get_scalings_returned"

\* the factor the design gives level i on axis a
LevelFactor(a, i) == IF a \in SPATIAL_AXES /\ shape[a] > 1 THEN Pow2(i) ELSE 1

\* the ceiling-rounded candidate shape of level i
CandidateShape(i) == [a \in AxisKeys |-> CeilDiv(shape[a], LevelFactor(a, i))]

SpatialVolume(tagged) == tagged["z"] * tagged["y"] * tagged["x"]

\* stop condition (a), against the whole chunk volume
StopA(i) == SpatialVolume(CandidateShape(i)) < 4 * ProdSeq(chunk_shape)
\* stop condition (a), against the chunk's z, y, x extents only
StopASpatialChunk(i) ==
    SpatialVolume(CandidateShape(i)) < 4 * SpatialVolume(Tagged(chunk_shape))
\* stop condition (b)
StopB(i) == \E a \in AxisKeys : shape[a] > 1 /\ CandidateShape(i)[a] <= 1
\* stop condition (c)
StopC(i) == /\ min_length # None
            /\ \A a \in AxisKeys : CandidateShape(i)[a] < min_length[1]

\* C3: the list _get_scalings returns has at least 1 and at most 20 levels.
C3_LevelCountWithin1To20 ==
    PlanReturned => (1 <= Len(scalings) /\ Len(scalings) <= 20)

\* C4: when no stop condition holds for any of the levels 1..20, so that more
\* than 20 levels would be generated, _get_scalings raises instead of
\* returning a list.
C4_RaisesBeyond20Levels ==
    (pc # "call_get_scalings" /\ \A i \in 1..20 : ~(StopA(i) \/ StopB(i) \/ StopC(i)))
        => pc = "get_scalings_raised"

\* C5: level 0 has scale 1 on every axis and its derived shape is the original
\* shape; level i >= 1 has factor exactly 2^i on every spatial axis whose
\* original extent exceeds 1.
C5_Level0IdentityAndPowersOfTwo ==
    PlanReturned =>
        /\ \A a \in AxisKeys : scalings[1][a] = 1
        /\ _scale_tagged_shape(shape, scalings[1]) = shape
        /\ \A i \in 1..(Len(scalings) - 1) :
              \A a \in SPATIAL_AXES : shape[a] > 1 => scalings[i + 1][a] = Pow2(i)

C5_Witness ==
    /\ PlanReturned
    /\ Len(scalings) >= 3
    /\ shape["y"] > 1 /\ shape["x"] > 1 /\ shape["z"] = 1

\* C6: at every returned level, every axis of original extent 1 and every
\* non-spatial axis has factor 1, so its derived extent is its original extent.
C6_SingletonAndNonSpatialPinned ==
    PlanReturned =>
        \A i \in 1..Len(scalings) : \A a \in AxisKeys :
            (shape[a] = 1 \/ a \notin SPATIAL_AXES) =>
                /\ scalings[i][a] = 1
                /\ _scale_tagged_shape(shape, scalings[i])[a] = shape[a]

C6_Witness ==
    /\ PlanReturned
    /\ Len(scalings) >= 2
    /\ shape["t"] > 1 /\ shape["z"] = 1
    /\ scalings[2]["y"] = 2 /\ scalings[2]["t"] = 1 /\ scalings[2]["z"] = 1

\* the smallest level index in 1..SearchTo at which Stop holds, else SearchTo + 1
FirstStop(Stop(_), SearchTo) ==
    IF \E i \in 1..SearchTo : Stop(i)
    THEN CHOOSE i \in 1..SearchTo : Stop(i) /\ \A j \in 1..(i - 1) : ~Stop(j)
    ELSE SearchTo + 1

C8_NoAxisReducedToSingleton ==
    PlanReturned =>
        \A i \in 1..Len(scalings) : \A a \in AxisKeys :
            shape[a] > 1 => _scale_tagged_shape(shape, scalings[i])[a] >= 2

\* a returned level 1 whose successor was cut by the singleton rule alone
C8_Witness ==
    /\ PlanReturned
    /\ Len(scalings) = 2
    /\ StopB(2) /\ ~StopA(2) /\ ~StopC(2)

-----------------------------------------------------------------------------
(* Claims about the export, checked under Spec *)

\* the full shape of the level with the given scaling: ceil(N / s) per axis
LevelShape(scaling) == [k \in 1..NAxes |-> CeilDiv(shape[AxisOrder[k]], scaling[AxisOrder[k]])]

\* decimating the whole image by stride s at once
Decimated(scaling) ==
    [p \in Idx(LevelShape(scaling)) |->
        SourcePixel([k \in 1..NAxes |-> p[k] * scaling[AxisOrder[k]]])]

EveryBlockWritten == blocks # {} /\ delivered = blocks

\* C1: once scale_and_write_block has run on every block of the partition,
\* every level's array holds at every coordinate k of its ceil(N/s) shape the
\* level-0 value at k*s: it equals decimating the whole image at once.
C1_SeamFreedom ==
    EveryBlockWritten =>
        \A i \in 1..Len(scalings) :
            /\ zarrays[i].shape = LevelShape(scalings[i])
            /\ zarrays[i].cells = Decimated(scalings[i])

\* three levels, two blocks cut off the grid of the coarsest level
C1_Witness ==
    /\ EveryBlockWritten
    /\ Len(scalings) = 3
    /\ Cardinality(blocks) = 2
    /\ \E roi \in blocks : roi[1][5] % 4 = 3

ErrorsBeforeMetadata ==
    {<<"ValueError">>, <<"array creation failed">>, <<"block write failed">>,
     <<"shape mismatch">>, <<"source failed">>}

Checkpoint95 == Report("write_ome_zarr", 95)

Reported(r) == \E n \in 1..Len(progress) : progress[n] = r

\* C9: when array creation, a block write or the block source fails, the
\* error leaves write_ome_zarr, the 95% checkpoint is never reported and the
\* metadata document is never written; a document is written only when every
\* block has been written to every level.
C9_AllOrNothing ==
    /\ error \in ErrorsBeforeMetadata =>
          /\ pc = "raised"
          /\ ~Reported(Checkpoint95)
          /\ document = None
    /\ document # None =>
          /\ EveryBlockWritten
          /\ Len(zarrays) = Len(scalings)
          /\ \A i \in 1..Len(zarrays) : DOMAIN zarrays[i].cells = Idx(zarrays[i].shape)

\* a store failure on the deepest level of the last block
C9_Witness ==
    /\ error = <<"block write failed">>
    /\ pc = "raised"
    /\ Cardinality(blocks) = 2
    /\ Cardinality(delivered) = 1
    /\ Len(scalings) >= 2
    /\ \E roi \in blocks \ delivered :
          /\ RoiCoords(roi) \subseteq DOMAIN zarrays[1].cells
          /\ DOMAIN zarrays[Len(zarrays)].cells # Idx(zarrays[Len(zarrays)].shape)

\* C10: the document has one dataset per planned level, in level order, and
\* scale[k] of dataset i is level i's factor for the axis named axes[k]; the
\* axes are t, c, z, y, x, so every scale vector has 5 entries in that order.
C10_MetadataPositionalAlignment ==
    document # None =>
        LET d == document[1]
        IN /\ Len(d.datasets) = Len(scalings)
           /\ [k \in 1..Len(d.axes) |-> d.axes[k].name] = <<"t", "c", "z", "y", "x">>
           /\ \A i \in 1..Len(d.datasets) :
                 /\ d.datasets[i].path = <<"s", i - 1>>
                 /\ Len(d.datasets[i].scale) = 5
                 /\ \A k \in 1..5 :
                       d.datasets[i].scale[k] = scalings[i][d.axes[k].name]

C10_Witness ==
    /\ document # None
    /\ Len(document[1].datasets) = 3
    /\ document[1].datasets[3].scale = <<1, 1, 1, 1, 4>>

Checkpoint25 == Report("write_ome_zarr", 25)

\* the position of the first report equal to r, 0 when there is none
FirstReport(r) ==
    IF Reported(r) THEN CHOOSE n \in 1..Len(progress) :
                            progress[n] = r /\ \A m \in 1..(n - 1) : progress[m] # r
    ELSE 0

AnyCellWritten == \E i \in 1..Len(zarrays) : DOMAIN zarrays[i].cells # {}

\* C11: in a run that returns, 25 is reported before any block is written,
\* 95 only after every block has been written to every level and before the
\* metadata document is written, and 100 once the metadata is finalized.
C11_ProgressOrdering ==
    /\ AnyCellWritten => Reported(Checkpoint25)
    /\ Reported(Checkpoint95) =>
          /\ EveryBlockWritten
          /\ \A i \in 1..Len(zarrays) : DOMAIN zarrays[i].cells = Idx(zarrays[i].shape)
    /\ document # None => Reported(Checkpoint95)
    /\ pc = "returned" =>
          \E n \in 1..Len(progress) :
              /\ progress[n].value = 100
              /\ n > FirstReport(Checkpoint95)

\* every order in which the blocks of a set can be delivered
Orders(S) ==
    {o \in [1..Cardinality(S) -> S] : \A m, n \in 1..Cardinality(S) : o[m] = o[n] => m = n}

\* the arrays right after creation, before any block is written
FreshArrays ==
    [i \in 1..Len(scalings) |->
        EmptyArray(Values(_scale_tagged_shape(shape, scalings[i])), <<"s", i - 1>>, chunk_shape)]

\* the arrays after the whole per-block write sequences of the blocks of
\* order, from its n-th block on, applied one after the other
RECURSIVE DeliverInOrder(_, _, _)
DeliverInOrder(zarrays_, order, n) ==
    IF n > Len(order) THEN zarrays_
    ELSE DeliverInOrder(
            scale_and_write_block(scalings, zarrays_, order[n], SourceData(order[n]), -1).zarrays,
            order, n + 1)

\* one order of delivery per partition, the same whatever order a run takes
ReferenceOrder(S) == CHOOSE o \in Orders(S) : TRUE

\* C12: for a fixed image and a fixed partition, the contents of every level's
\* array after the last block are the same for every order of delivery: in
\* whatever order this run has delivered the blocks, its arrays are the ones
\* the partition's reference order gives on fresh arrays; and the metadata
\* document is the one the planned levels give.
C12_OrderIndependence ==
    /\ (pc \in {"stream", "returned"} /\ EveryBlockWritten) =>
          DeliverInOrder(FreshArrays, ReferenceOrder(blocks), 1) = zarrays
    /\ document # None =>
          document = <<_write_ome_zarr_and_ilastik_metadata(
                          [i \in 1..Len(scalings) |-> ImageMetadata(i - 1, scalings[i])],
                          AxisOrder)>>

\* two blocks of different size cut on x, the one further along x delivered
\* first, two levels
C12_Witness ==
    /\ pc = "returned"
    /\ EveryBlockWritten
    /\ Len(scalings) >= 2
    /\ \E A, B \in blocks :
          /\ blocks = {A, B}
          /\ A[1][5] < B[1][5]
          /\ A[2][5] % 2 = 1
          /\ RequesterProgress({A}, blocks) # RequesterProgress({B}, blocks)
          /\ progress[2] = Report("requester", RequesterProgress({B}, blocks))

ChunkShapeChosen == pc # "start" /\ chunk_shape # <<>>

\* C13: the chunk shape _get_chunk_shape returns has, on every axis, an extent
\* of at least 1 and at most the axis's extent, and extent 1 on t and c
\* whatever their extents.
C13_ChunkShapeWithinExtents ==
    ChunkShapeChosen =>
        /\ Len(chunk_shape) = NAxes
        /\ \A k \in 1..NAxes :
              /\ chunk_shape[k] >= 1
              /\ chunk_shape[k] <= shape[AxisOrder[k]]
              /\ AxisOrder[k] \in {"t", "c"} => chunk_shape[k] = 1

\* more than one time point or channel, and a chunk that is not all ones
C13_Witness ==
    /\ ChunkShapeChosen
    /\ shape["t"] > 1 \/ shape["c"] > 1
    /\ chunk_shape[5] > 1
    /\ chunk_shape[1] = 1 /\ chunk_shape[2] = 1

AnyWrite == \E i \in 1..Len(zarrays) : zarrays[i].writes > 0

-----------------------------------------------------------------------------
(* Claims about the downsampler, checked under SpecRoi *)

ScalingReturned == pc = "apply_scaling_method_returned"

\* ROIs as sets of coordinates overlap
Overlap(r1, r2) == RoiCoords(r1) \cap RoiCoords(r2) # {}

\* C2: the target ROIs of two distinct blocks of a partition never overlap,
\* each is [ceil(start/s), ceil(stop/s)) per axis, and together they cover
\* exactly the level's full shape ceil(N/s); blocks x in [0,10) and [10,20)
\* at scale 2 map to [0,5) and [5,10).
C2_TargetRoisTile ==
    ScalingReturned =>
        LET s == Values(scalings[1])
        IN /\ \A r \in scaled : \A k \in 1..NAxes :
                 /\ r.scaled_roi[1][k] = CeilDiv(r.roi[1][k], s[k])
                 /\ r.scaled_roi[2][k] = CeilDiv(r.roi[2][k], s[k])
           /\ \A r1, r2 \in scaled : r1.roi # r2.roi => ~Overlap(r1.scaled_roi, r2.scaled_roi)
           /\ UNION {RoiCoords(r.scaled_roi) : r \in scaled} = Idx(LevelShape(scalings[1]))
           /\ \A r \in scaled :
                 (s[5] = 2 /\ r.roi[1][5] = 0 /\ r.roi[2][5] = 10)
                    => (r.scaled_roi[1][5] = 0 /\ r.scaled_roi[2][5] = 5)
           /\ \A r \in scaled :
                 (s[5] = 2 /\ r.roi[1][5] = 10 /\ r.roi[2][5] = 20)
                    => (r.scaled_roi[1][5] = 5 /\ r.scaled_roi[2][5] = 10)

\* scenario 3: x in [0,10) and [10,20) at scale 2
C2_Witness ==
    /\ ScalingReturned
    /\ scalings[1]["x"] = 2
    /\ \E r1, r2 \in scaled :
          /\ r1.roi[1][5] = 0 /\ r1.roi[2][5] = 10
          /\ r2.roi[1][5] = 10 /\ r2.roi[2][5] = 20
          /\ r1.scaled_roi[1][5] = 0 /\ r1.scaled_roi[2][5] = 5
          /\ r2.scaled_roi[1][5] = 5 /\ r2.scaled_roi[2][5] = 10

\* C15: for every block ROI with 0 <= start <= stop and every integer scale,
\* the crop is (s - start mod s) mod s, the block's result has per axis
\* ceil(stop/s) - ceil(start/s) elements, the extent of the returned target
\* ROI (0 when the block holds no grid sample), its elements are the source's
\* at start + crop + j*s, and writing it to the level's array at the target
\* ROI is no shape mismatch; start 22 at scale 5 has crop 3 and target start 5.
C15_BlockLocalShapeConsistency ==
    ScalingReturned =>
        \A r \in scaled :
            LET s == Values(scalings[1])
                crop == [k \in 1..NAxes |-> (s[k] - (r.roi[1][k] % s[k])) % s[k]]
            IN /\ \A k \in 1..NAxes :
                     /\ block_start_crop(r.roi[1][k], s[k]) = crop[k]
                     /\ r.scaled_data.shape[k] =
                            CeilDiv(r.roi[2][k], s[k]) - CeilDiv(r.roi[1][k], s[k])
                     /\ r.scaled_data.shape[k] = r.scaled_roi[2][k] - r.scaled_roi[1][k]
                     /\ r.scaled_data.shape[k] =
                            SliceLen(r.roi[2][k] - r.roi[1][k], crop[k], s[k])
               /\ DOMAIN r.scaled_data.at = Idx(r.scaled_data.shape)
               /\ \A j \in DOMAIN r.scaled_data.at :
                     r.scaled_data.at[j] =
                        SourcePixel([k \in 1..NAxes |-> r.roi[1][k] + crop[k] + j[k] * s[k]])
               /\ SetItem(EmptyArray(LevelShape(scalings[1]), <<"s", 1>>, <<>>),
                          r.scaled_roi, r.scaled_data).ok
               /\ (r.roi[1][5] = 22 /\ s[5] = 5) =>
                     (crop[5] = 3 /\ r.scaled_roi[1][5] = 5)

\* scenario 2: x from 22 to 27 at scale 5 keeps the one sample at 25
C15_Witness ==
    /\ ScalingReturned
    /\ scalings[1]["x"] = 5
    /\ \E r \in scaled :
          /\ r.roi[1][5] = 22 /\ r.roi[2][5] = 27
          /\ r.roi[1][4] = 0 /\ r.roi[2][4] = 1
          /\ r.scaled_roi[1][5] = 5 /\ r.scaled_roi[2][5] = 6
          /\ r.scaled_data.shape[5] = 1
          /\ \A j \in DOMAIN r.scaled_data.at : r.scaled_data.at[j][5] = 25

====
